---- MODULE Spec2Model ----
(***************************************************************************)
(* Model of the filtering-log RequestInfo component                        *)
(* (src/Extension/src/pages/filtering-log/components/RequestWizard/        *)
(*  RequestInfo/RequestInfo.tsx): the rule-text extractor getRulesData and *)
(* the control-button resolver renderControlButtons, run in the order the  *)
(* component body runs them during one render of the selected event.       *)
(*                                                                         *)
(* JavaScript values:                                                      *)
(*   an optional value (undefined / null or a value v) is <<>> or <<v>>;   *)
(*   a thrown TypeError is the outcome Thrown of the function;             *)
(*   a rendered fragment is the sequence of the BUTTON_MAP keys rendered.  *)
(***************************************************************************)
EXTENDS Integers, Sequences, FiniteSets, Bags, TLC

VARIABLES selectedEvent, filtersMetadata, addedRuleState, rulesData, controlButtons, pc

\* IconsApi.updateTabIcon (src/unnamed/part_000) on one tab:
\*   calls    the calls in flight, a bag of records: the await the call stands
\*            at (pc), the arguments and settings it read when it started
\*            (frame), its local variables icon, badge, badgeColor,
\*            notification, imageData (locals) and the awaited calls it has
\*            made so far (attempted)
\*   tab      what the browser shows on the tab: icon, badge text, badge colour
\*   settled  how the promise of a call settled in the step just taken: the
\*            awaited calls it made, the step that failed, the log entry, the
\*            outcome and the badge it had computed; "none" after a step that
\*            ends no call
\*   clean    no call on the tab has failed so far
\*   serial   no call on the tab was started while another one was in flight
\*   env      what the tab is run with: the frames passed to the calls, the
\*            notifications that can be active, and the number of calls that
\*            may be in flight together
VARIABLES calls, tab, settled, clean, serial, env

requestInfoVars == <<selectedEvent, filtersMetadata, addedRuleState, rulesData, controlButtons, pc>>

iconVars == <<calls, tab, settled, clean, serial, env>>

vars == <<selectedEvent, filtersMetadata, addedRuleState, rulesData, controlButtons, pc,
          calls, tab, settled, clean, serial, env>>

(***************************************************************************)
(* Bounds of the model.                                                    *)
(***************************************************************************)
\* longest replaceRules / stealthAllowlistRules group drawn
MaxGroupLen == 2
\* group entries come from the regular filters 1..MaxFilterId
MaxFilterId == 2
\* calls of updateTabIcon in flight together on the tab
MaxInFlight == 2

(***************************************************************************)
(* JavaScript optional values and truthiness.                              *)
(***************************************************************************)
Undefined == <<>>

Some(v) == <<v>>

\* truthiness of an optional string: undefined, null and "" are falsy
TruthyText(t) == t # Undefined /\ t[1] # ""

\* truthiness of an optional object or array: only undefined / null are falsy
TruthyObject(o) == o # Undefined

Range(s) == {s[i] : i \in 1..Len(s)}

(***************************************************************************)
(* Reserved filter identifiers, AddedRuleState, StatusMode, request types. *)
(***************************************************************************)
UserFilterId == 0

AllowlistFilterId == 100

AddedRuleStates == {"None", "Block", "Unblock"}

StatusModeBlocked == "blocked"

StatusModes == {"regular", "modified", "blocked", "allowed"}

\* StatusMode of an event; the derivation lives outside this component and the
\* event carries its outcome in the field statusMode
getStatusMode(event) == event.statusMode

\* first metadata entry with the filter id gives the name, else null
getFilterName(filterId, metadata) ==
    IF filterId = Undefined \/ ~TruthyObject(metadata) THEN Undefined
    ELSE LET found == SelectSeq(metadata[1], LAMBDA el : el.filterId = filterId[1])
         IN IF Len(found) > 0 THEN Some(found[1].name) ELSE Undefined

(***************************************************************************)
(* getRulesData                                                            *)
(***************************************************************************)
EmptyResult == [ok |-> TRUE, appliedRuleTexts |-> <<>>, originalRuleTexts |-> <<>>]

\* the call ended in a TypeError: nothing is returned
Thrown == [ok |-> FALSE, appliedRuleTexts |-> <<>>, originalRuleTexts |-> <<>>]

\* `${text} (${filterName})`
WithFilterName(text, filterName) == text \o " (" \o filterName \o ")"

\* mutant: the original text is pushed to the applied texts as well
addRuleOriginalIntoApplied(result, rule, filterName) ==
    IF ~result.ok THEN result
    ELSE IF rule = Undefined THEN Thrown
    ELSE LET r == rule[1]
             a == IF TruthyText(r.appliedRuleText)
                  THEN <<IF TruthyText(filterName)
                         THEN WithFilterName(r.appliedRuleText[1], filterName[1])
                         ELSE r.appliedRuleText[1]>>
                  ELSE <<>>
             o == IF TruthyText(r.originalRuleText)
                  THEN <<IF TruthyText(filterName)
                         THEN WithFilterName(r.originalRuleText[1], filterName[1])
                         ELSE r.originalRuleText[1]>>
                  ELSE <<>>
         IN [ok |-> TRUE,
             appliedRuleTexts |-> result.appliedRuleTexts \o a \o o,
             originalRuleTexts |-> result.originalRuleTexts \o o]

\* addRule: destructuring an undefined rule throws; a falsy text adds nothing
addRule(result, rule, filterName) ==
    IF ~result.ok THEN result
    ELSE IF rule = Undefined THEN Thrown
    ELSE LET r == rule[1]
             a == IF TruthyText(r.appliedRuleText)
                  THEN <<IF TruthyText(filterName)
                         THEN WithFilterName(r.appliedRuleText[1], filterName[1])
                         ELSE r.appliedRuleText[1]>>
                  ELSE <<>>
             o == IF TruthyText(r.originalRuleText)
                  THEN <<IF TruthyText(filterName)
                         THEN WithFilterName(r.originalRuleText[1], filterName[1])
                         ELSE r.originalRuleText[1]>>
                  ELSE <<>>
         IN [ok |-> TRUE,
             appliedRuleTexts |-> result.appliedRuleTexts \o a,
             originalRuleTexts |-> result.originalRuleTexts \o o]

\* one step of rules.forEach: rule.filterId of an undefined entry throws
addRuleWithFilterName(result, rule, metadata) ==
    IF ~result.ok THEN result
    ELSE IF TruthyObject(metadata)
         THEN IF rule = Undefined THEN Thrown
              ELSE addRule(result, rule, getFilterName(Some(rule[1].filterId), metadata))
         ELSE addRule(result, rule, Undefined)

RECURSIVE forEachRule(_, _, _, _)
\* rules.forEach from entry i on
forEachRule(result, rules, metadata, i) ==
    IF i > Len(rules) THEN result
    ELSE forEachRule(addRuleWithFilterName(result, rules[i], metadata), rules, metadata, i + 1)

\* mutant: the single-entry case is dropped, every group is annotated
addRuleGroupAlwaysNamed(result, rules, metadata) ==
    IF ~TruthyObject(rules) THEN result
    ELSE forEachRule(result, rules[1], metadata, 1)

\* addRuleGroup
addRuleGroup(result, rules, metadata) ==
    IF ~TruthyObject(rules) THEN result
    ELSE IF Len(rules[1]) = 1 /\ TruthyObject(rules[1][1])
         THEN addRule(result, rules[1][1], Undefined)
         ELSE forEachRule(result, rules[1], metadata, 1)

\* the implicit allowlist decision that is not shown as an applied rule
isImplicitAllowlistRule(requestRule) ==
    /\ requestRule[1].allowlistRule
    /\ requestRule[1].documentLevelRule
    /\ requestRule[1].filterId = AllowlistFilterId

\* mutant: the groups are all added, no early return after a group
getRulesDataMerged(event, metadata) ==
    LET afterReplace == addRuleGroup(EmptyResult, event.replaceRules, metadata)
        afterStealth == addRuleGroup(afterReplace, event.stealthAllowlistRules, metadata)
    IN IF ~TruthyObject(event.requestRule) THEN afterStealth
       ELSE IF isImplicitAllowlistRule(event.requestRule) THEN afterStealth
       ELSE addRule(afterStealth, event.requestRule, Undefined)

\* mutant: the document-level condition is left out of the allowlist test
getRulesDataNoDocumentLevel(event, metadata) ==
    IF TruthyObject(event.replaceRules)
    THEN addRuleGroup(EmptyResult, event.replaceRules, metadata)
    ELSE IF TruthyObject(event.stealthAllowlistRules)
    THEN addRuleGroup(EmptyResult, event.stealthAllowlistRules, metadata)
    ELSE IF ~TruthyObject(event.requestRule) THEN EmptyResult
    ELSE IF /\ event.requestRule[1].allowlistRule
            /\ event.requestRule[1].filterId = AllowlistFilterId
    THEN EmptyResult
    ELSE addRule(EmptyResult, event.requestRule, Undefined)

\* getRulesData
getRulesData(event, metadata) ==
    IF TruthyObject(event.replaceRules)
    THEN addRuleGroup(EmptyResult, event.replaceRules, metadata)
    ELSE IF TruthyObject(event.stealthAllowlistRules)
    THEN addRuleGroup(EmptyResult, event.stealthAllowlistRules, metadata)
    ELSE IF ~TruthyObject(event.requestRule) THEN EmptyResult
    ELSE IF isImplicitAllowlistRule(event.requestRule) THEN EmptyResult
    ELSE addRule(EmptyResult, event.requestRule, Undefined)

(***************************************************************************)
(* renderControlButtons                                                    *)
(***************************************************************************)
previewableTypes == {"image", "document", "subdocument", "script", "stylesheet"}

\* mutant: the status of the event is not looked at
showPreviewButtonAnyStatus(event) ==
    /\ TruthyText(event.requestType)
    /\ event.requestType[1] \in previewableTypes
    /\ ~TruthyText(event.element)
    /\ ~TruthyText(event.script)
    /\ ~TruthyText(event.cookieName)

\* showPreviewButton
showPreviewButton(event) ==
    /\ TruthyText(event.requestType)
    /\ event.requestType[1] \in previewableTypes
    /\ ~TruthyText(event.element)
    /\ ~TruthyText(event.script)
    /\ ~TruthyText(event.cookieName)
    /\ ~(getStatusMode(event) = StatusModeBlocked)

\* {showPreviewButton && renderButton(BUTTON_MAP.PREVIEW)}
previewFragment(event) == IF showPreviewButton(event) THEN <<"PREVIEW">> ELSE <<>>

\* mutant: the added-rule state is tested after the request rule branches
renderControlButtonsAddedStateLast(event, added) ==
    LET requestRule == event.requestRule
        userFilterButton == IF requestRule[1].isStealthModeRule THEN "UNBLOCK" ELSE "USER_FILTER"
    IN IF TruthyObject(requestRule) /\ requestRule[1].filterId = UserFilterId
          /\ requestRule[1].allowlistRule
       THEN <<"BLOCK", userFilterButton>> \o previewFragment(event)
       ELSE IF added = "Block" THEN <<"REMOVE_ADDED_BLOCK_RULE">>
       ELSE IF added = "Unblock" THEN <<"REMOVE_ADDED_UNBLOCK_RULE">>
       ELSE IF ~TruthyObject(requestRule) THEN <<"BLOCK">> \o previewFragment(event)
       ELSE IF requestRule[1].filterId = UserFilterId
       THEN <<userFilterButton>> \o previewFragment(event)
       ELSE IF requestRule[1].filterId = AllowlistFilterId
       THEN <<"ALLOWLIST">> \o previewFragment(event)
       ELSE IF ~requestRule[1].allowlistRule
       THEN <<"UNBLOCK">> \o previewFragment(event)
       ELSE <<"BLOCK">> \o previewFragment(event)

\* mutant: the Allowlist filter id is tested after the allowlistRule flag
renderControlButtonsAllowlistIdLast(event, added) ==
    LET requestRule == event.requestRule
        userFilterButton == IF requestRule[1].isStealthModeRule THEN "UNBLOCK" ELSE "USER_FILTER"
    IN IF added = "Block" THEN <<"REMOVE_ADDED_BLOCK_RULE">>
       ELSE IF added = "Unblock" THEN <<"REMOVE_ADDED_UNBLOCK_RULE">>
       ELSE IF ~TruthyObject(requestRule) THEN <<"BLOCK">> \o previewFragment(event)
       ELSE IF requestRule[1].filterId = UserFilterId
       THEN IF requestRule[1].allowlistRule
            THEN <<"BLOCK", userFilterButton>> \o previewFragment(event)
            ELSE <<userFilterButton>> \o previewFragment(event)
       ELSE IF ~requestRule[1].allowlistRule
       THEN <<"UNBLOCK">> \o previewFragment(event)
       ELSE IF requestRule[1].filterId = AllowlistFilterId
       THEN <<"ALLOWLIST">> \o previewFragment(event)
       ELSE <<"BLOCK">> \o previewFragment(event)

\* mutant: no separate fragment for an allowlist rule of the user filter
renderControlButtonsNoUserAllowlist(event, added) ==
    LET requestRule == event.requestRule
        userFilterButton == IF requestRule[1].isStealthModeRule THEN "UNBLOCK" ELSE "USER_FILTER"
    IN IF added = "Block" THEN <<"REMOVE_ADDED_BLOCK_RULE">>
       ELSE IF added = "Unblock" THEN <<"REMOVE_ADDED_UNBLOCK_RULE">>
       ELSE IF ~TruthyObject(requestRule) THEN <<"BLOCK">> \o previewFragment(event)
       ELSE IF requestRule[1].filterId = UserFilterId
       THEN <<userFilterButton>> \o previewFragment(event)
       ELSE IF requestRule[1].filterId = AllowlistFilterId
       THEN <<"ALLOWLIST">> \o previewFragment(event)
       ELSE IF ~requestRule[1].allowlistRule
       THEN <<"UNBLOCK">> \o previewFragment(event)
       ELSE <<"BLOCK">> \o previewFragment(event)

\* renderControlButtons: the BUTTON_MAP keys of the buttons rendered, in order
renderControlButtons(event, added) ==
    LET requestRule == event.requestRule
        userFilterButton == IF requestRule[1].isStealthModeRule THEN "UNBLOCK" ELSE "USER_FILTER"
    IN IF added = "Block" THEN <<"REMOVE_ADDED_BLOCK_RULE">>
       ELSE IF added = "Unblock" THEN <<"REMOVE_ADDED_UNBLOCK_RULE">>
       ELSE IF ~TruthyObject(requestRule) THEN <<"BLOCK">> \o previewFragment(event)
       ELSE IF requestRule[1].filterId = UserFilterId
       THEN IF requestRule[1].allowlistRule
            THEN <<"BLOCK", userFilterButton>> \o previewFragment(event)
            ELSE <<userFilterButton>> \o previewFragment(event)
       ELSE IF requestRule[1].filterId = AllowlistFilterId
       THEN <<"ALLOWLIST">> \o previewFragment(event)
       ELSE IF ~requestRule[1].allowlistRule
       THEN <<"UNBLOCK">> \o previewFragment(event)
       ELSE <<"BLOCK">> \o previewFragment(event)

(***************************************************************************)
(* The events, metadata and added-rule states the render is run on.        *)
(***************************************************************************)
AppliedText == "||ads.example^"

OriginalText == "ads.example#%#//scriptlet"

OtherText == "||cdn.example^$replace=/a/b/"

Rule(filterId, applied, original, allowlist, documentLevel, stealth) ==
    [filterId |-> filterId, appliedRuleText |-> applied, originalRuleText |-> original,
     allowlistRule |-> allowlist, documentLevelRule |-> documentLevel,
     isStealthModeRule |-> stealth]

\* (appliedRuleText, originalRuleText) of a group entry
GroupTexts ==
    {<<Undefined, Undefined>>, <<Some(AppliedText), Undefined>>,
     <<Some(AppliedText), Some(OriginalText)>>, <<Some(OtherText), Undefined>>}

GroupRules ==
    {Rule(f, t[1], t[2], FALSE, FALSE, FALSE) : f \in 1..MaxFilterId, t \in GroupTexts}

\* an entry of a group is a rule descriptor or is missing (undefined)
GroupEntries == {Undefined} \cup {Some(r) : r \in GroupRules}

Groups == UNION {[1..n -> GroupEntries] : n \in 0..MaxGroupLen}

OptGroups == {Undefined} \cup {Some(g) : g \in Groups}

SmallGroups ==
    {Undefined, Some(<<>>),
     Some(<<Some(Rule(1, Some(AppliedText), Some(OriginalText), FALSE, FALSE, FALSE))>>),
     Some(<<Some(Rule(1, Some(AppliedText), Undefined, FALSE, FALSE, FALSE)),
            Some(Rule(2, Some(AppliedText), Some(OriginalText), FALSE, FALSE, FALSE))>>)}

EmptyGroups == {Undefined, Some(<<>>)}

RequestRuleFilterIds == {UserFilterId, AllowlistFilterId, 1}

RequestRules ==
    {Rule(f, a, o, al, dl, st) :
        f \in RequestRuleFilterIds,
        a \in {Undefined, Some(""), Some(AppliedText)},
        o \in {Undefined, Some(OriginalText)},
        al \in BOOLEAN, dl \in BOOLEAN, st \in BOOLEAN}

SmallRequestRules ==
    {Undefined,
     Some(Rule(1, Some(AppliedText), Undefined, FALSE, FALSE, FALSE)),
     Some(Rule(AllowlistFilterId, Some(AppliedText), Undefined, TRUE, TRUE, FALSE))}

ButtonRequestRules ==
    {Undefined} \cup
    {Some(Rule(f, Some(AppliedText), Undefined, al, FALSE, st)) :
        f \in RequestRuleFilterIds, al \in BOOLEAN, st \in BOOLEAN}

RequestTypes ==
    {Undefined} \cup
    {Some(t) : t \in previewableTypes \cup {"xmlhttprequest", "other"}}

Markers == {Undefined, Some("marker")}

Event(requestRule, replaceRules, stealthAllowlistRules, requestType, element, script, cookieName, statusMode) ==
    [requestRule |-> requestRule, replaceRules |-> replaceRules,
     stealthAllowlistRules |-> stealthAllowlistRules, requestType |-> requestType,
     element |-> element, script |-> script, cookieName |-> cookieName,
     statusMode |-> statusMode]

\* events that differ in their rule groups
GroupEvents ==
    {Event(rr, rep, st, Some("script"), Undefined, Undefined, Undefined, "modified") :
        rr \in SmallRequestRules, rep \in OptGroups, st \in SmallGroups}
    \cup
    {Event(rr, rep, st, Some("script"), Undefined, Undefined, Undefined, "modified") :
        rr \in SmallRequestRules, rep \in EmptyGroups, st \in OptGroups}

\* events that differ in their request rule
RequestRuleEvents ==
    {Event(rr, rep, st, Some("script"), Undefined, Undefined, Undefined, "regular") :
        rr \in {Undefined} \cup {Some(r) : r \in RequestRules},
        rep \in EmptyGroups, st \in EmptyGroups}

\* events that differ in what the buttons depend on
ButtonEvents ==
    {Event(rr, Undefined, Undefined, ty, el, sc, ck, sm) :
        rr \in ButtonRequestRules, ty \in RequestTypes,
        el \in Markers, sc \in Markers, ck \in Markers, sm \in StatusModes}

\* the filter metadata of the log store: not loaded, or naming filter 1 only
FiltersMetadataValues == {Undefined, Some(<<[filterId |-> 1, name |-> "Base filter"]>>)}

(***************************************************************************)
(* IconsApi.updateTabIcon                                                  *)
(***************************************************************************)
\* browser.runtime.getURL
getURL(path) == "chrome-extension://adguard/" \o path

warningIcon ==
    [size19 |-> getURL("assets/icons/warning-19.png"),
     size38 |-> getURL("assets/icons/warning-38.png")]

offIcon ==
    [size19 |-> getURL("assets/icons/off-19.png"),
     size38 |-> getURL("assets/icons/off-38.png")]

onIcon ==
    [size19 |-> getURL("assets/icons/on-19.png"),
     size38 |-> getURL("assets/icons/on-38.png")]

defaultBadgeColor == "#555"

infinitySign == "\\u221E"

Digits == <<"0", "1", "2", "3", "4", "5", "6", "7", "8", "9">>

RECURSIVE String(_)
\* String(n) of a non-negative integer: its decimal digits
String(n) ==
    IF n < 10 THEN Digits[n + 1]
    ELSE String(n \div 10) \o Digits[(n % 10) + 1]

\* const disabled = documentAllowlisted || applicationFilteringDisabled
isDisabled(fr) == fr.documentAllowlisted \/ fr.applicationFilteringDisabled

\* blocked: the tab's count unless disabled or the page statistics are hidden
blockedCount(fr) ==
    IF ~isDisabled(fr) /\ ~fr.disableShowPageStats THEN fr.totalBlockedTab ELSE 0

\* mutant: the disabled state is tested before the filter limits
stateIconDisabledFirst(fr) ==
    IF isDisabled(fr) THEN offIcon
    ELSE IF fr.isWarning THEN warningIcon
    ELSE onIcon

\* the icon chosen from the state of the extension
stateIcon(fr) ==
    IF fr.isWarning THEN warningIcon
    ELSE IF isDisabled(fr) THEN offIcon
    ELSE onIcon

\* mutant: the infinity sign starts at 99
blockedBadgeFrom99(blocked) ==
    IF blocked = 0 THEN ""
    ELSE IF blocked >= 99 THEN infinitySign
    ELSE String(blocked)

\* the badge for a count of blocked requests
blockedBadge(blocked) ==
    IF blocked = 0 THEN ""
    ELSE IF blocked > 99 THEN infinitySign
    ELSE String(blocked)

\* a || b on optional strings, b a string
OrElse(a, b) == IF TruthyText(a) THEN a[1] ELSE b

\* notification?.icons?.ICON_GRAY / ICON_GREEN
notificationIcon(notification, which) ==
    IF ~TruthyObject(notification[1].icons) THEN Undefined
    ELSE IF which = "ICON_GRAY" THEN notification[1].icons[1].ICON_GRAY
    ELSE notification[1].icons[1].ICON_GREEN

\* the locals after the active notification, if any, has been indicated
withNotification(loc, notification, disabled) ==
    IF ~TruthyObject(notification) THEN [loc EXCEPT !.notification = notification]
    ELSE LET wanted == notificationIcon(notification, IF disabled THEN "ICON_GRAY" ELSE "ICON_GREEN")
         IN [loc EXCEPT !.notification = notification,
                        !.badge = OrElse(notification[1].badgeText, loc.badge),
                        !.badgeColor = OrElse(notification[1].badgeBgColor, loc.badgeColor),
                        !.icon = IF TruthyObject(wanted) THEN wanted[1] ELSE loc.icon]

\* getIconImageData: the image data of each size of the icon
getIconImageData(icon) ==
    [size19 |-> "ImageData(" \o icon.size19 \o ")",
     size38 |-> "ImageData(" \o icon.size38 \o ")"]

\* what runs before the try block and can throw, in program order
beforeTry == <<"settingsStorage.get", "areFilterLimitsExceeded">>

\* what runs inside the try block and can fail, in program order: the
\* synchronous browser.runtime.getURL calls, then the awaited calls
tryBlock ==
    <<"getURL", "getCurrentNotification", "getIconImageData", "setIcon", "setBadgeText",
      "setBadgeBackgroundColor">>

\* mutant: the badge calls are made after the try block
failureOutcomeBadgeUncaught(step) ==
    IF step \in {"getURL", "getCurrentNotification", "getIconImageData", "setIcon"}
    THEN [outcome |-> "resolved", logged |-> TRUE]
    ELSE [outcome |-> "rejected", logged |-> FALSE]

\* a failure inside the try block is caught and logged, any other rejects the promise
failureOutcome(step) ==
    IF step \in Range(tryBlock)
    THEN [outcome |-> "resolved", logged |-> TRUE]
    ELSE [outcome |-> "rejected", logged |-> FALSE]

\* the synchronous steps a call with this frame runs before its first await:
\* settingsStorage.get is reached only when the tab is not disabled
synchronousSteps(fr) ==
    {step \in Range(beforeTry) \cup {"getURL"} :
        step = "settingsStorage.get" => ~isDisabled(fr)}

(***************************************************************************)
(* Frame data, settings and notifications the calls are run on.            *)
(***************************************************************************)
BlockedCounts == {0, 1, 99, 100}

Frame(allowlisted, filteringDisabled, total, hideStats, warning) ==
    [documentAllowlisted |-> allowlisted, applicationFilteringDisabled |-> filteringDisabled,
     totalBlockedTab |-> total, disableShowPageStats |-> hideStats, isWarning |-> warning]

Frames ==
    {Frame(a, d, t, h, w) : a \in BOOLEAN, d \in BOOLEAN, t \in BlockedCounts,
                            h \in BOOLEAN, w \in BOOLEAN}

promoGrayIcon == [size19 |-> "promo-gray-19.png", size38 |-> "promo-gray-38.png"]

promoGreenIcon == [size19 |-> "promo-green-19.png", size38 |-> "promo-green-38.png"]

Notification(badgeText, badgeBgColor, icons) ==
    [badgeText |-> badgeText, badgeBgColor |-> badgeBgColor, icons |-> icons]

NotificationIcons(gray, green) == [ICON_GRAY |-> gray, ICON_GREEN |-> green]

promoNotification ==
    Some(Notification(Some("!"), Some("#f00"),
                      Some(NotificationIcons(Some(promoGrayIcon), Some(promoGreenIcon)))))

\* no active notification, or one with some of its optional parts
Notifications ==
    {Undefined,
     promoNotification,
     Some(Notification(Some(""), Undefined,
                       Some(NotificationIcons(Some(promoGrayIcon), Undefined)))),
     Some(Notification(Undefined, Some("#f00"),
                       Some(NotificationIcons(Undefined, Some(promoGreenIcon))))),
     Some(Notification(Some("!"), Undefined, Undefined))}

\* the calls made while calls overlap: a page with one blocked request, and
\* the same page allowlisted
OverlapFrames ==
    {Frame(FALSE, FALSE, 1, FALSE, FALSE), Frame(TRUE, FALSE, 0, FALSE, FALSE)}

OverlapNotifications == {Undefined, promoNotification}

\* calls overlap, up to MaxInFlight of them
OverlapEnv ==
    [frames |-> OverlapFrames, notifications |-> OverlapNotifications, limit |-> MaxInFlight]

\* every frame and notification, the calls made one after the other
InputsEnv == [frames |-> Frames, notifications |-> Notifications, limit |-> 1]

\* the step just taken ended no call
NoneSettled ==
    [attempted |-> <<>>, failedAt |-> Undefined, logged |-> FALSE, outcome |-> "none",
     badge |-> Undefined]

\* a tab on which nothing has been set yet
IconsInit ==
    /\ calls = EmptyBag
    /\ tab = [icon |-> Undefined, badgeText |-> "", badgeColor |-> Undefined]
    /\ settled = NoneSettled
    /\ clean = TRUE
    /\ serial = TRUE

\* lines 53-97 of a call that reaches its first await: the locals chosen from
\* the state of the extension, getCurrentNotification() called and awaited
NewCall(fr) ==
    [pc |-> "getCurrentNotification",
     frame |-> fr,
     locals |-> [icon |-> stateIcon(fr), badge |-> blockedBadge(blockedCount(fr)),
                 badgeColor |-> defaultBadgeColor, notification |-> Undefined,
                 imageData |-> Undefined],
     attempted |-> <<>>]

\* the calls in flight
InFlight == BagToSet(calls)

\* call c goes on as call d
Replace(c, d) == calls' = (calls (-) SetToBag({c})) (+) SetToBag({d})

\* call c ends
Leave(c) == calls' = calls (-) SetToBag({c})

\* the catch block: call c ends at the failed step
Catch(c, step) ==
    /\ Leave(c)
    /\ settled' = [attempted |-> Append(c.attempted, step), failedAt |-> Some(step),
                   logged |-> failureOutcome(step).logged,
                   outcome |-> failureOutcome(step).outcome,
                   badge |-> Some(c.locals.badge)]
    /\ clean' = FALSE

\* the step of call c was made and came back: c waits at the next await
Attempted(c, step, next, loc) ==
    /\ Replace(c, [c EXCEPT !.pc = next, !.locals = loc, !.attempted = Append(@, step)])
    /\ settled' = NoneSettled
    /\ UNCHANGED clean

\* call c returns after its last step
Resolve(c, step) ==
    /\ Leave(c)
    /\ settled' = [attempted |-> Append(c.attempted, step), failedAt |-> Undefined,
                   logged |-> FALSE, outcome |-> "resolved",
                   badge |-> Some(c.locals.badge)]
    /\ UNCHANGED clean

\* updateTabIcon is called, whether or not earlier calls are still in flight:
\* everything up to the first await, or up to a synchronous step that throws
UpdateTabIcon ==
    /\ BagCardinality(calls) < env.limit
    /\ \E fr \in env.frames :
        \/ /\ calls' = calls (+) SetToBag({NewCall(fr)})
           /\ settled' = NoneSettled
           /\ UNCHANGED clean
        \/ \E step \in synchronousSteps(fr) :
            /\ settled' = [attempted |-> <<>>, failedAt |-> Some(step),
                           logged |-> failureOutcome(step).logged,
                           outcome |-> failureOutcome(step).outcome,
                           badge |-> Undefined]
            /\ clean' = FALSE
            /\ UNCHANGED calls
    /\ serial' = (serial /\ calls = EmptyBag)
    /\ UNCHANGED <<tab, env>>
    /\ UNCHANGED requestInfoVars

\* await promoNotificationApi.getCurrentNotification() and the notification block
GetCurrentNotification ==
    /\ \E c \in InFlight :
        /\ c.pc = "getCurrentNotification"
        /\ \/ \E n \in env.notifications :
                Attempted(c, "getCurrentNotification", "getIconImageData",
                          withNotification(c.locals, n, isDisabled(c.frame)))
           \/ Catch(c, "getCurrentNotification")
    /\ UNCHANGED <<tab, serial, env>>
    /\ UNCHANGED requestInfoVars

\* await getIconImageData(icon)
GetIconImageData ==
    /\ \E c \in InFlight :
        /\ c.pc = "getIconImageData"
        /\ \/ Attempted(c, "getIconImageData", "setIcon",
                        [c.locals EXCEPT !.imageData = Some(getIconImageData(c.locals.icon))])
           \/ Catch(c, "getIconImageData")
    /\ UNCHANGED <<tab, serial, env>>
    /\ UNCHANGED requestInfoVars

\* await browserAction.setIcon({ tabId, imageData }); then if (badge)
SetIcon ==
    /\ \E c \in InFlight :
        /\ c.pc = "setIcon"
        /\ \/ /\ tab' = [tab EXCEPT !.icon = c.locals.imageData]
              /\ IF TruthyText(Some(c.locals.badge))
                 THEN Attempted(c, "setIcon", "setBadgeText", c.locals)
                 ELSE Resolve(c, "setIcon")
           \/ /\ Catch(c, "setIcon")
              /\ UNCHANGED tab
    /\ UNCHANGED <<serial, env>>
    /\ UNCHANGED requestInfoVars

\* await browserAction.setBadgeText({ tabId, text: badge })
SetBadgeText ==
    /\ \E c \in InFlight :
        /\ c.pc = "setBadgeText"
        /\ \/ /\ tab' = [tab EXCEPT !.badgeText = c.locals.badge]
              /\ Attempted(c, "setBadgeText", "setBadgeBackgroundColor", c.locals)
           \/ /\ Catch(c, "setBadgeText")
              /\ UNCHANGED tab
    /\ UNCHANGED <<serial, env>>
    /\ UNCHANGED requestInfoVars

\* await browserAction.setBadgeBackgroundColor({ tabId, color: badgeColor })
SetBadgeBackgroundColor ==
    /\ \E c \in InFlight :
        /\ c.pc = "setBadgeBackgroundColor"
        /\ \/ /\ tab' = [tab EXCEPT !.badgeColor = Some(c.locals.badgeColor)]
              /\ Resolve(c, "setBadgeBackgroundColor")
           \/ /\ Catch(c, "setBadgeBackgroundColor")
              /\ UNCHANGED tab
    /\ UNCHANGED <<serial, env>>
    /\ UNCHANGED requestInfoVars
(***************************************************************************)
(* One render of RequestInfo.                                              *)
(***************************************************************************)
Init ==
    /\ \/ /\ selectedEvent \in GroupEvents
          /\ filtersMetadata \in FiltersMetadataValues
          /\ addedRuleState = "None"
       \/ /\ selectedEvent \in RequestRuleEvents
          /\ filtersMetadata \in FiltersMetadataValues
          /\ addedRuleState = "None"
       \/ /\ selectedEvent \in ButtonEvents
          /\ filtersMetadata = Undefined
          /\ addedRuleState \in AddedRuleStates
    /\ rulesData = EmptyResult
    /\ controlButtons = <<>>
    /\ pc = "render"
    /\ IconsInit
    /\ env = OverlapEnv

\* const rulesData = getRulesData(selectedEvent, filtersMetadata); a throw ends the render
GetRulesData ==
    /\ pc = "render"
    /\ rulesData' = getRulesData(selectedEvent, filtersMetadata)
    /\ pc' = IF rulesData'.ok THEN "rules" ELSE "thrown"
    /\ UNCHANGED <<selectedEvent, filtersMetadata, addedRuleState, controlButtons>>
    /\ UNCHANGED iconVars

\* {renderControlButtons(selectedEvent)}
RenderControlButtons ==
    /\ pc = "rules"
    /\ controlButtons' = renderControlButtons(selectedEvent, addedRuleState)
    /\ pc' = "rendered"
    /\ UNCHANGED <<selectedEvent, filtersMetadata, addedRuleState, rulesData>>
    /\ UNCHANGED iconVars

Next == GetRulesData \/ RenderControlButtons

Spec == Init /\ [][Next]_vars

(***************************************************************************)
(* Calls of updateTabIcon on one tab.  A call can be started while earlier *)
(* calls are suspended at an await; their browser calls then interleave.   *)
(***************************************************************************)
IdleRequestInfo ==
    /\ selectedEvent = Event(Undefined, Undefined, Undefined, Undefined, Undefined, Undefined, Undefined, "regular")
    /\ filtersMetadata = Undefined
    /\ addedRuleState = "None"
    /\ rulesData = EmptyResult
    /\ controlButtons = <<>>
    /\ pc = "render"

InitIcons ==
    /\ IdleRequestInfo
    /\ IconsInit
    /\ env = OverlapEnv

NextIcons ==
    \/ UpdateTabIcon
    \/ GetCurrentNotification
    \/ GetIconImageData
    \/ SetIcon
    \/ SetBadgeText
    \/ SetBadgeBackgroundColor

SpecIcons == InitIcons /\ [][NextIcons]_vars

(***************************************************************************)
(* The same calls over every frame and notification, each call started     *)
(* after the one before it has ended.                                      *)
(***************************************************************************)
InitIconsInputs ==
    /\ IdleRequestInfo
    /\ IconsInit
    /\ env = InputsEnv

SpecIconsInputs == InitIconsInputs /\ [][NextIcons]_vars

(***************************************************************************)
(* Vocabulary of the properties, stated apart from the operators above.    *)
(***************************************************************************)
\* the extractor has been called (it returned or threw)
Extracted == pc # "render"

\* the button resolver has returned
Rendered == pc = "rendered"

\* a marker or text is set
IsSet(v) == v # Undefined /\ v # Some("")

\* the group is present and holds at least one entry
NonEmptyGroup(g) == g # Undefined /\ g # Some(<<>>)

\* every entry of the group is a rule descriptor
WellFormedGroup(g) == \A i \in 1..Len(g) : g[i] # Undefined

PreviewTypes == {Some("image"), Some("document"), Some("subdocument"), Some("script"),
                 Some("stylesheet")}

PreviewEligible(e) ==
    /\ e.requestType \in PreviewTypes
    /\ ~IsSet(e.element) /\ ~IsSet(e.script) /\ ~IsSet(e.cookieName)
    /\ e.statusMode # "blocked"

PreviewIfEligible(e) == IF PreviewEligible(e) THEN <<"PREVIEW">> ELSE <<>>

\* requestRule is present, from the UserFilter id, and an allowlist rule
UserFilterAllowlist(e) ==
    /\ e.requestRule # Undefined
    /\ e.requestRule[1].filterId = UserFilterId
    /\ e.requestRule[1].allowlistRule

\* the base button of an event by the first matching case
BaseButton(e) ==
    CASE e.requestRule = Undefined -> "BLOCK"
      [] e.requestRule # Undefined /\ e.requestRule[1].filterId = UserFilterId ->
            IF e.requestRule[1].isStealthModeRule THEN "UNBLOCK" ELSE "USER_FILTER"
      [] e.requestRule # Undefined /\ e.requestRule[1].filterId = AllowlistFilterId -> "ALLOWLIST"
      [] OTHER -> IF e.requestRule[1].allowlistRule THEN "BLOCK" ELSE "UNBLOCK"

\* the display name the metadata gives a filter id, if any
NameOf(filterId, metadata) ==
    IF metadata = Undefined THEN Undefined
    ELSE LET hits == {i \in 1..Len(metadata[1]) : metadata[1][i].filterId = filterId}
         IN IF hits = {} THEN Undefined
            ELSE Some(metadata[1][CHOOSE i \in hits : \A j \in hits : i <= j].name)

\* a text as emitted for an entry of a group of the given size
Emitted(text, filterId, metadata, size) ==
    IF size >= 2 /\ NameOf(filterId, metadata) # Undefined
    THEN text \o " (" \o NameOf(filterId, metadata)[1] \o ")"
    ELSE text

RECURSIVE ExpectedApplied(_, _, _)
\* the applied texts of the first n entries of group g, in order
ExpectedApplied(g, metadata, n) ==
    IF n = 0 THEN <<>>
    ELSE ExpectedApplied(g, metadata, n - 1) \o
         (IF IsSet(g[n][1].appliedRuleText)
          THEN <<Emitted(g[n][1].appliedRuleText[1], g[n][1].filterId, metadata, Len(g))>>
          ELSE <<>>)

RECURSIVE ExpectedOriginal(_, _, _)
\* the original texts of the first n entries of group g, in order
ExpectedOriginal(g, metadata, n) ==
    IF n = 0 THEN <<>>
    ELSE ExpectedOriginal(g, metadata, n - 1) \o
         (IF IsSet(g[n][1].originalRuleText)
          THEN <<Emitted(g[n][1].originalRuleText[1], g[n][1].filterId, metadata, Len(g))>>
          ELSE <<>>)

\* what processing group g yields
ExpectedGroup(g, metadata) ==
    [ok |-> TRUE,
     appliedRuleTexts |-> ExpectedApplied(g, metadata, Len(g)),
     originalRuleTexts |-> ExpectedOriginal(g, metadata, Len(g))]

\* the texts, bare or with a filter name, that the entries of group g can give
GroupAppliedTexts(g, metadata) ==
    {Emitted(g[i][1].appliedRuleText[1], g[i][1].filterId, metadata, s) :
        i \in {j \in 1..Len(g) : g[j] # Undefined /\ IsSet(g[j][1].appliedRuleText)},
        s \in 1..2}

GroupOriginalTexts(g, metadata) ==
    {Emitted(g[i][1].originalRuleText[1], g[i][1].filterId, metadata, s) :
        i \in {j \in 1..Len(g) : g[j] # Undefined /\ IsSet(g[j][1].originalRuleText)},
        s \in 1..2}

\* the returned texts all come from group g
TextsFrom(g, metadata) ==
    /\ Range(rulesData.appliedRuleTexts) \subseteq GroupAppliedTexts(g, metadata)
    /\ Range(rulesData.originalRuleTexts) \subseteq GroupOriginalTexts(g, metadata)

\* requestRule is the implicit allowlist decision
ImplicitAllowlist(e) ==
    /\ e.requestRule[1].allowlistRule
    /\ e.requestRule[1].documentLevelRule
    /\ e.requestRule[1].filterId = AllowlistFilterId

\* neither rule group is present on the event
NoGroups(e) == e.replaceRules = Undefined /\ e.stealthAllowlistRules = Undefined

(***************************************************************************)
(* C1: when addedRuleState is Block the resolver returns exactly           *)
(* [RemoveAddedBlock] and when it is Unblock exactly [RemoveAddedUnblock], *)
(* whatever the request rule, request type and markers of the event are;   *)
(* Preview is never included.                                              *)
(***************************************************************************)
C1_AddedStateButton ==
    Rendered =>
        /\ addedRuleState = "Block" => controlButtons = <<"REMOVE_ADDED_BLOCK_RULE">>
        /\ addedRuleState = "Unblock" => controlButtons = <<"REMOVE_ADDED_UNBLOCK_RULE">>

C1_Witness ==
    /\ Rendered
    /\ addedRuleState = "Block"
    /\ UserFilterAllowlist(selectedEvent)
    /\ PreviewEligible(selectedEvent)
    /\ controlButtons = <<"REMOVE_ADDED_BLOCK_RULE">>

(***************************************************************************)
(* C2: with addedRuleState None, and the request rule not an allowlist     *)
(* rule of the user filter (that case is C3), the resolver returns the     *)
(* base button of the first matching case, followed by Preview exactly     *)
(* when the event is preview-eligible.  An event with no request rule,     *)
(* type image, no markers and a status other than blocked gives            *)
(* [Block, Preview].                                                       *)
(***************************************************************************)
C2_BaseButtonThenPreview ==
    Rendered /\ addedRuleState = "None" /\ ~UserFilterAllowlist(selectedEvent) =>
        /\ controlButtons = <<BaseButton(selectedEvent)>> \o PreviewIfEligible(selectedEvent)
        /\ ( /\ selectedEvent.requestRule = Undefined
             /\ selectedEvent.requestType = Some("image")
             /\ ~IsSet(selectedEvent.element)
             /\ ~IsSet(selectedEvent.script)
             /\ ~IsSet(selectedEvent.cookieName)
             /\ selectedEvent.statusMode # "blocked"
             => controlButtons = <<"BLOCK", "PREVIEW">> )

C2_Witness ==
    /\ Rendered
    /\ addedRuleState = "None"
    /\ selectedEvent.requestRule # Undefined
    /\ selectedEvent.requestRule[1].filterId = AllowlistFilterId
    /\ ~selectedEvent.requestRule[1].allowlistRule
    /\ selectedEvent.requestType = Some("image")
    /\ controlButtons = <<"ALLOWLIST", "PREVIEW">>

(***************************************************************************)
(* C3: with addedRuleState None and a request rule that is an allowlist    *)
(* rule of the user filter, the resolver returns Block, then               *)
(* RemoveUserFilter (Unblock for a stealth-mode rule), then Preview        *)
(* exactly when the event is preview-eligible.                             *)
(***************************************************************************)
C3_UserFilterAllowlistButtons ==
    Rendered /\ addedRuleState = "None" /\ UserFilterAllowlist(selectedEvent) =>
        controlButtons =
            <<"BLOCK",
              IF selectedEvent.requestRule[1].isStealthModeRule THEN "UNBLOCK" ELSE "USER_FILTER">>
            \o PreviewIfEligible(selectedEvent)

C3_Witness ==
    /\ Rendered
    /\ addedRuleState = "None"
    /\ UserFilterAllowlist(selectedEvent)
    /\ ~selectedEvent.requestRule[1].isStealthModeRule
    /\ controlButtons = <<"BLOCK", "USER_FILTER", "PREVIEW">>

(***************************************************************************)
(* C4: Preview is among the buttons if and only if addedRuleState is None, *)
(* the request type is image, document, subdocument, script or stylesheet, *)
(* no element, script or cookieName marker is set and the status is not    *)
(* blocked; when present it is the last button and occurs once.            *)
(***************************************************************************)
C4_PreviewIffEligible ==
    Rendered =>
        /\ ("PREVIEW" \in Range(controlButtons))
             <=> (addedRuleState = "None" /\ PreviewEligible(selectedEvent))
        /\ \A i \in 1..Len(controlButtons) :
             controlButtons[i] = "PREVIEW" => i = Len(controlButtons)

C4_Witness ==
    /\ Rendered
    /\ addedRuleState = "None"
    /\ selectedEvent.requestType = Some("stylesheet")
    /\ selectedEvent.statusMode = "allowed"
    /\ UserFilterAllowlist(selectedEvent)
    /\ Len(controlButtons) = 3
    /\ controlButtons[3] = "PREVIEW"

(***************************************************************************)
(* C5: the extractor takes its output from one group only, in the order    *)
(* replaceRules, stealthAllowlistRules, requestRule: the returned texts    *)
(* all come from descriptors of the selected group, and the groups of      *)
(* lower precedence have no effect on the result.                          *)
(***************************************************************************)
C5_OneGroupOnly ==
    Extracted =>
        LET e == selectedEvent
            withoutStealth == [e EXCEPT !.stealthAllowlistRules = Undefined]
            withoutRequestRule == [e EXCEPT !.requestRule = Undefined]
        IN IF NonEmptyGroup(e.replaceRules)
           THEN /\ TextsFrom(e.replaceRules[1], filtersMetadata)
                /\ rulesData = getRulesData([withoutStealth EXCEPT !.requestRule = Undefined],
                                            filtersMetadata)
           ELSE IF NonEmptyGroup(e.stealthAllowlistRules)
           THEN /\ TextsFrom(e.stealthAllowlistRules[1], filtersMetadata)
                /\ rulesData = getRulesData(withoutRequestRule, filtersMetadata)
           ELSE TextsFrom(<<e.requestRule>>, filtersMetadata)

C5_Witness ==
    /\ Extracted
    /\ NonEmptyGroup(selectedEvent.replaceRules)
    /\ NonEmptyGroup(selectedEvent.stealthAllowlistRules)
    /\ selectedEvent.requestRule # Undefined
    /\ IsSet(selectedEvent.requestRule[1].appliedRuleText)
    /\ AppliedText \in GroupAppliedTexts(selectedEvent.stealthAllowlistRules[1], Undefined)
    /\ rulesData.appliedRuleTexts = <<OtherText>>
    /\ rulesData.originalRuleTexts = <<>>

(***************************************************************************)
(* C6: a group is selected only when it is non-empty: with replaceRules    *)
(* absent or empty the extractor goes on to stealthAllowlistRules, and     *)
(* with that absent or empty it goes on to requestRule, so that an event   *)
(* with an empty group and a request rule carrying text yields the text    *)
(* of the request rule.                                                    *)
(***************************************************************************)
C6_EmptyGroupNotSelected ==
    Extracted =>
        LET e == selectedEvent
        IN /\ ( /\ ~NonEmptyGroup(e.replaceRules)
                /\ NonEmptyGroup(e.stealthAllowlistRules)
                /\ WellFormedGroup(e.stealthAllowlistRules[1])
                => rulesData = ExpectedGroup(e.stealthAllowlistRules[1], filtersMetadata) )
           /\ ( /\ ~NonEmptyGroup(e.replaceRules)
                /\ ~NonEmptyGroup(e.stealthAllowlistRules)
                /\ e.requestRule # Undefined
                /\ ~ImplicitAllowlist(e)
                /\ IsSet(e.requestRule[1].appliedRuleText)
                => rulesData.appliedRuleTexts = <<e.requestRule[1].appliedRuleText[1]>> )

(***************************************************************************)
(* C7 as stated, first sentence: for an event whose request rule is an     *)
(* allowlist rule, a document-level rule and from the Allowlist filter id, *)
(* the extractor returns two empty sequences.                              *)
(***************************************************************************)
C7_Original ==
    Extracted /\ selectedEvent.requestRule # Undefined /\ ImplicitAllowlist(selectedEvent) =>
        /\ rulesData.appliedRuleTexts = <<>>
        /\ rulesData.originalRuleTexts = <<>>

(***************************************************************************)
(* C7 amended: for an event on which neither replaceRules nor              *)
(* stealthAllowlistRules is present, a request rule that is an allowlist   *)
(* rule, a document-level rule and from the Allowlist filter id gives two  *)
(* empty sequences; with one of the three false the request rule is        *)
(* processed as a single-element group.                                    *)
(***************************************************************************)
C7_ImplicitAllowlistHidden ==
    Extracted /\ selectedEvent.requestRule # Undefined /\ NoGroups(selectedEvent) =>
        IF ImplicitAllowlist(selectedEvent)
        THEN rulesData = EmptyResult
        ELSE rulesData = ExpectedGroup(<<selectedEvent.requestRule>>, filtersMetadata)

C7_Witness ==
    /\ Extracted
    /\ NoGroups(selectedEvent)
    /\ selectedEvent.requestRule # Undefined
    /\ ImplicitAllowlist(selectedEvent)
    /\ IsSet(selectedEvent.requestRule[1].appliedRuleText)
    /\ IsSet(selectedEvent.requestRule[1].originalRuleText)
    /\ rulesData.appliedRuleTexts = <<>>
    /\ rulesData.originalRuleTexts = <<>>

(***************************************************************************)
(* C8: group processing annotates by group size: a group of one entry      *)
(* gives its texts bare; a group of two or more entries gives every text   *)
(* as "<text> (<filterName>)" when the filter id of the entry has a name   *)
(* in the metadata and bare when it has not or there is no metadata; the   *)
(* order of the entries is kept.                                           *)
(***************************************************************************)
C8_AnnotateBySize ==
    Extracted =>
        LET e == selectedEvent
        IN IF e.replaceRules # Undefined
           THEN WellFormedGroup(e.replaceRules[1])
                    => rulesData = ExpectedGroup(e.replaceRules[1], filtersMetadata)
           ELSE e.stealthAllowlistRules # Undefined
                    /\ WellFormedGroup(e.stealthAllowlistRules[1])
                    => rulesData = ExpectedGroup(e.stealthAllowlistRules[1], filtersMetadata)

C8_Witness ==
    /\ Extracted
    /\ filtersMetadata # Undefined
    /\ selectedEvent.replaceRules # Undefined
    /\ Len(selectedEvent.replaceRules[1]) = 2
    /\ rulesData.appliedRuleTexts = <<"||ads.example^ (Base filter)", "||ads.example^">>
    /\ rulesData.originalRuleTexts = <<"ads.example#%#//scriptlet (Base filter)">>

(***************************************************************************)
(* C9 as stated: for an event with a single request rule (no rule group    *)
(* present) whose appliedRuleText is non-empty, the extractor returns      *)
(* appliedTexts = [that text], bare, and originalTexts is                  *)
(* [originalRuleText] when that is set and empty otherwise.                *)
(***************************************************************************)
C9_Original ==
    /\ Extracted
    /\ NoGroups(selectedEvent)
    /\ selectedEvent.requestRule # Undefined
    /\ IsSet(selectedEvent.requestRule[1].appliedRuleText)
    => /\ rulesData.appliedRuleTexts = <<selectedEvent.requestRule[1].appliedRuleText[1]>>
       /\ rulesData.originalRuleTexts =
            IF IsSet(selectedEvent.requestRule[1].originalRuleText)
            THEN <<selectedEvent.requestRule[1].originalRuleText[1]>>
            ELSE <<>>

(***************************************************************************)
(* C9 amended: the same, unless the request rule is an allowlist rule, a   *)
(* document-level rule and from the Allowlist filter id, for which both    *)
(* sequences are empty.                                                    *)
(***************************************************************************)
C9_SingleRequestRuleText ==
    /\ Extracted
    /\ NoGroups(selectedEvent)
    /\ selectedEvent.requestRule # Undefined
    /\ IsSet(selectedEvent.requestRule[1].appliedRuleText)
    /\ ~ImplicitAllowlist(selectedEvent)
    => /\ rulesData.appliedRuleTexts = <<selectedEvent.requestRule[1].appliedRuleText[1]>>
       /\ rulesData.originalRuleTexts =
            IF IsSet(selectedEvent.requestRule[1].originalRuleText)
            THEN <<selectedEvent.requestRule[1].originalRuleText[1]>>
            ELSE <<>>

C9_Witness ==
    /\ Extracted
    /\ NoGroups(selectedEvent)
    /\ selectedEvent.requestRule # Undefined
    /\ selectedEvent.requestRule[1].filterId = AllowlistFilterId
    /\ selectedEvent.requestRule[1].allowlistRule
    /\ ~selectedEvent.requestRule[1].documentLevelRule
    /\ rulesData.appliedRuleTexts = <<"||ads.example^">>
    /\ rulesData.originalRuleTexts = <<"ads.example#%#//scriptlet">>

(***************************************************************************)
(* C10: neither resolver ends in an error: for every event, rule           *)
(* descriptors without texts, missing group entries and unknown filter     *)
(* ids included, the extractor returns its two sequences, a descriptor     *)
(* without a text adding nothing, and the button resolver returns at       *)
(* least one button.                                                       *)
(***************************************************************************)
C10_NeverRaises ==
    /\ Extracted => rulesData.ok
    /\ Rendered => Len(controlButtons) >= 1


(***************************************************************************)
(* Vocabulary of the properties of updateTabIcon.                          *)
(***************************************************************************)
\* the document is allowlisted or application filtering is disabled
Disabled(fr) == fr.documentAllowlisted \/ fr.applicationFilteringDisabled

\* call c has computed the image data it passes to setIcon
IconChosen(c) == c.pc \in {"setIcon", "setBadgeText", "setBadgeBackgroundColor"}

\* the notification step of call c has come back
NotificationRead(c) == c.pc # "getCurrentNotification"

\* a call has just ended and no call is in flight
CallsEnded == calls = EmptyBag /\ settled.outcome # "none"

\* the icon the notification provides for the state, if it provides one
Provided(n, fr) ==
    IF n = Undefined \/ n[1].icons = Undefined THEN Undefined
    ELSE IF Disabled(fr) THEN n[1].icons[1].ICON_GRAY
    ELSE n[1].icons[1].ICON_GREEN

ExpectedIcon(fr, n) ==
    IF Provided(n, fr) # Undefined THEN Provided(n, fr)[1]
    ELSE IF fr.isWarning THEN warningIcon
    ELSE IF Disabled(fr) THEN offIcon
    ELSE onIcon

GrayIcons == {offIcon, promoGrayIcon}

DecimalDigit ==
    (0 :> "0") @@ (1 :> "1") @@ (2 :> "2") @@ (3 :> "3") @@ (4 :> "4") @@
    (5 :> "5") @@ (6 :> "6") @@ (7 :> "7") @@ (8 :> "8") @@ (9 :> "9")

\* the decimal string of a number in 1..99
Decimal(n) ==
    IF n >= 10 THEN DecimalDigit[n \div 10] \o DecimalDigit[n % 10] ELSE DecimalDigit[n]

ExpectedBadge(fr, n) ==
    IF n # Undefined /\ IsSet(n[1].badgeText) THEN n[1].badgeText[1]
    ELSE IF Disabled(fr) \/ fr.disableShowPageStats \/ fr.totalBlockedTab = 0 THEN ""
    ELSE IF fr.totalBlockedTab > 99 THEN "\\u221E"
    ELSE Decimal(fr.totalBlockedTab)

\* the awaited calls in the order the code makes them
ProgramOrder ==
    <<"getCurrentNotification", "getIconImageData", "setIcon", "setBadgeText",
      "setBadgeBackgroundColor">>

\* a failure of one of the awaited calls
AwaitedFailures == {Some(ProgramOrder[i]) : i \in 1..Len(ProgramOrder)}

(***************************************************************************)
(* C11: the icon passed to setIcon is gray (the off icon or the            *)
(* notification's ICON_GRAY) only if the document is allowlisted or        *)
(* filtering is disabled.  Without a notification it is the warning icon   *)
(* when the filter limits are exceeded, else the off icon when disabled,   *)
(* else the on icon; with a notification it is the notification's          *)
(* ICON_GRAY when disabled and its ICON_GREEN when not, whenever the       *)
(* notification provides that icon.                                        *)
(***************************************************************************)
C11_IconChoice ==
    \A c \in InFlight :
        IconChosen(c) =>
            /\ c.locals.imageData = Some(getIconImageData(ExpectedIcon(c.frame, c.locals.notification)))
            /\ c.locals.icon \in GrayIcons => Disabled(c.frame)

C11_Witness ==
    \E c \in InFlight :
        /\ c.pc = "setBadgeText"
        /\ c.frame.isWarning
        /\ c.frame.documentAllowlisted
        /\ ~c.frame.applicationFilteringDisabled
        /\ c.locals.notification # Undefined
        /\ c.locals.icon = promoGrayIcon
        /\ tab.icon = Some(getIconImageData(promoGrayIcon))

(***************************************************************************)
(* C12: the badge text computed is the notification's badgeText when a     *)
(* notification is active and that text is non-empty; otherwise empty when *)
(* the tab is disabled, DisableShowPageStats is on or totalBlockedTab is   *)
(* 0; otherwise the infinity sign when totalBlockedTab > 99; otherwise     *)
(* the decimal string of totalBlockedTab.                                  *)
(***************************************************************************)
C12_BadgeText ==
    \A c \in InFlight :
        NotificationRead(c) => c.locals.badge = ExpectedBadge(c.frame, c.locals.notification)

C12_Witness ==
    \E c \in InFlight :
        /\ c.pc = "setBadgeBackgroundColor"
        /\ c.frame.totalBlockedTab = 99
        /\ ~Disabled(c.frame)
        /\ ~c.frame.disableShowPageStats
        /\ c.locals.notification # Undefined
        /\ c.locals.notification[1].badgeText = Some("")
        /\ c.locals.badge = "99"
        /\ tab.badgeText = "99"

(***************************************************************************)
(* C13: updateTabIcon resolves and never rejects when                      *)
(* getCurrentNotification, getIconImageData, setIcon, setBadgeText or      *)
(* setBadgeBackgroundColor fails: the failure is logged, the call makes no *)
(* step after the failed one, every call makes its steps in program order, *)
(* and no error reaches the caller.  A call that ends without a failure    *)
(* resolves and logs nothing.                                              *)
(***************************************************************************)
C13_FailureCaught ==
    /\ settled.failedAt \in AwaitedFailures =>
         /\ settled.outcome = "resolved"
         /\ settled.logged
         /\ settled.attempted[Len(settled.attempted)] = settled.failedAt[1]
    /\ settled.attempted = SubSeq(ProgramOrder, 1, Len(settled.attempted))
    /\ \A c \in InFlight : c.attempted = SubSeq(ProgramOrder, 1, Len(c.attempted))
    /\ settled.outcome # "none" /\ settled.failedAt = Undefined =>
         settled.outcome = "resolved" /\ ~settled.logged

C13_Witness ==
    /\ calls # EmptyBag
    /\ settled.failedAt = Some("setBadgeBackgroundColor")
    /\ settled.logged
    /\ settled.outcome = "resolved"
    /\ settled.attempted = ProgramOrder
    /\ ~serial

(***************************************************************************)
(* C14: after any sequence of updateTabIcon calls on the tab, made one     *)
(* after the other, that each ran to completion without failure, the badge *)
(* text shown on the tab is the badge computed by the most recent call;    *)
(* after a call that computes an empty badge the tab shows no badge left   *)
(* over from an earlier call.                                              *)
(***************************************************************************)
C14_BadgeShowsLatest ==
    CallsEnded /\ settled.outcome = "resolved" /\ clean /\ serial =>
        settled.badge = Some(tab.badgeText)

====
